---- MODULE Spec2Model ----
(***************************************************************************)
(* Model of the Flutter install task (tasks/install/index.ts).             *)
(*                                                                         *)
(* A run of main() is a linear sequence of steps; every step is one call   *)
(* on a collaborator (HTTP client, task library, tool cache, tar) whose    *)
(* outcome the environment chooses.  The tool cache lives on the host and  *)
(* survives the runs; everything else is local to a run.  An optional      *)
(* value (JavaScript undefined) is the empty sequence, a present value x   *)
(* is <<x>>, the JSON null is Null.  The manifest is whatever JSON.parse    *)
(* returned, which the code does not check: the model draws it from a      *)
(* bounded sample of JSON values, listed at Manifests.                     *)
(***************************************************************************)
EXTENDS Integers, Sequences, FiniteSets, TLC

VARIABLES
    platform,       \* os.platform() of the host
    cache,          \* the host's tool cache: key -> [path, content]
    nextUuid,       \* number of uuidv4() values handed out on the host
    pc,             \* per process: position in main()
    runs,           \* per process: number of runs started
    inputs,         \* per process: the task inputs of the current run
    local,          \* per process: the local variables of main()
    taskVariables,  \* per process: variables set through task.setVariable
    taskResult,     \* per process: what task.setResult recorded
    calls,          \* per process: the collaborator calls of the current run
    cacheAtStart,   \* per process: the cache as it was when the run started
    overlapped,     \* per process: another run was in flight during this run
    published,      \* host history: <<cache key, value>> of every FlutterToolPath set
    extractFolders  \* host history: the folders _createExtractFolder created

vars == <<platform, cache, nextUuid, pc, runs, inputs, local, taskVariables,
          taskResult, calls, cacheAtStart, overlapped, published, extractFolders>>

----------------------------------------------------------------------------
(* Bounds and input domains *)

MaxRuns == 2
MaxConcRuns == 1
MaxReleases == 2

Procs == {1, 2}

None == <<>>
Null == <<"null", "null">>
Some(x) == <<x>>
IsSome(m) == m # None /\ m # Null
Val(m) == m[1]

OsPlatforms == {"darwin", "linux", "win32"}
Channels == {"stable", "beta"}
Hashes == {"h1", "h2"}
BaseUrl == "https://storage.googleapis.com/flutter_infra/releases"

\* a JSON object that is a release record; the last one carries no hash
Record(hash, version, channel, archive) ==
    [json |-> "object", hash |-> hash, version |-> version, channel |-> channel,
     archive |-> archive]

ReleasePool ==
    { Record(Some("h1"), "1.2.3", "stable", Some("stable/a.zip")),
      Record(Some("h1"), "2.0.0", "stable", Some("stable/c.tar.xz")),
      Record(None, "1.2.3", "beta", Some("beta/d.zip")) }

ReleaseLists == UNION { [1..n -> ReleasePool] : n \in 0..MaxReleases }

CurrentReleases ==
    UNION { [cs -> { Some(h) : h \in Hashes }] : cs \in SUBSET Channels }

\* a JSON object that is the body of the response
Body(current_release, releases, base_url) ==
    [json |-> "object", current_release |-> current_release, releases |-> releases,
     base_url |-> base_url]

\* the JSON null, as the body or as an item of releases
JsonNull == [json |-> "null"]

\* bodies with a current_release mapping, a releases array of records and a
\* base_url
RecordBodies ==
    { Body(Some(cr), Some(rs), Some(BaseUrl)) :
        cr \in CurrentReleases, rs \in ReleaseLists }

\* other bodies JSON.parse returns: null; no releases; no current_release; no
\* base_url or a null one; a null item before or after a record; a record
\* with a null hash and no archive, without and with a null current hash
OtherBodies ==
    LET stable == [c \in {"stable"} |-> Some("h1")]
        A == Record(Some("h1"), "1.2.3", "stable", Some("stable/a.zip"))
        bare == Record(Null, "2.0.0", "beta", None)
    IN  { JsonNull,
          Body(Some(stable), None, Some(BaseUrl)),
          Body(None, None, Some(BaseUrl)),
          Body(None, Some(<<A>>), Some(BaseUrl)),
          Body(Some(stable), Some(<<A>>), None),
          Body(Some(stable), Some(<<A>>), Null),
          Body(Some(stable), Some(<<JsonNull, A>>), Some(BaseUrl)),
          Body(Some(stable), Some(<<A, JsonNull>>), Some(BaseUrl)),
          Body(Some(<<>>), Some(<<bare>>), Some(BaseUrl)),
          Body(Some([c \in {"beta"} |-> Null]), Some(<<bare>>), Some(BaseUrl)) }

\* what getReleaseData returns (line 82), a sample of it: the shapes above.
\* Not drawn: records without a version or a channel, and bodies that are
\* numbers, strings or arrays, which read like an object without fields.
Manifests == RecordBodies \cup OtherBodies

ConcManifests ==
    { Body(Some([c \in {"stable"} |-> Some("h1")]),
           Some(<<Record(Some("h1"), "1.2.3", "stable", Some("stable/a.zip"))>>),
           Some(BaseUrl)),
      Body(Some([c \in {"beta"} |-> Some("h2")]),
           Some(<<Record(Some("h2"), "2.0.0", "beta", Some("beta/b.tar.xz"))>>),
           Some(BaseUrl)) }

ChannelInputs == {None, Some("stable"), Some("beta")}
VersionInputs == {None, Some("latest"), Some("1.2.3"), Some("2.0.0")}

----------------------------------------------------------------------------
(* Program constants *)

FLUTTER_TOOL_NAME == "Flutter"
FLUTTER_EXE_RELATIVEPATH == "flutter/bin"
FLUTTER_TOOL_PATH_ENV_VAR == "FlutterToolPath"

\* the failures of section 7 that the code raises as a TypeError of its own:
\* line 26 reads .archive of an absent release, line 41 joins an absent path
SelectionError == "TypeError: releaseInfo is undefined"
CacheInconsistencyError == "TypeError: toolPath is undefined"

\* line 16 reads ['base_url'] of a null body
BodyError == "TypeError: releaseData is null"

\* line 86 reads [channel] of an absent current_release
CurrentReleaseError == "TypeError: current_release is undefined"

\* lines 88 and 94 read .find of an absent releases
ReleasesError == "TypeError: releases is undefined"

\* the callbacks of lines 88 and 94 read .hash and .version of a null item
ItemError == "TypeError: item is null"

\* line 118 joins an Agent.TempDirectory that is not set
TempDirectoryError == "TypeError: Agent.TempDirectory is undefined"

AgentTempDirectory == "/agent/_temp"
AgentToolsDirectory == "/agent/_tool"

----------------------------------------------------------------------------
(* Pure functions *)

\* path.win32.normalize on a path without "." or "..": every "/" becomes "\"
Backslashes(s) ==
    LET normalized[i \in 0..Len(s)] ==
            IF i = 0 THEN ""
            ELSE normalized[i - 1]
                    \o (IF SubSeq(s, i, i) = "/" THEN "\\" ELSE SubSeq(s, i, i))
    IN  normalized[Len(s)]

\* path.join of the host, on the paths of the model, which carry no "." or
\* trailing separator: path.posix joins with "/", path.win32 joins and then
\* normalises the separators of the whole result
PathJoin(os, a, b) ==
    IF os = "win32" THEN Backslashes(a \o "/" \o b) ELSE a \o "/" \o b

\* a template literal prints undefined as "undefined" and null as "null"
TemplateString(m) ==
    IF IsSome(m) THEN Val(m) ELSE IF m = Null THEN "null" ELSE "undefined"

\* String.prototype.endsWith
EndsWith(s, suffix) ==
    /\ Len(s) >= Len(suffix)
    /\ SubSeq(s, Len(s) - Len(suffix) + 1, Len(s)) = suffix

\* Array.prototype.find, given the indexes at which the callback is true and
\* those at which it throws: the callback runs on the elements in order up to
\* the first index of either kind
ArrayFind(seq, hits, throwing) ==
    LET stops == hits \cup throwing
        first == CHOOSE i \in stops : \A j \in stops : i <= j
    IN  IF stops = {} THEN [error |-> "", release |-> None]
        ELSE IF first \in throwing THEN [error |-> ItemError, release |-> None]
        ELSE [error |-> "", release |-> Some(seq[first])]

\* the items of an array on which reading a property throws
NullItems(rs) == { i \in 1..Len(rs) : rs[i] = JsonNull }

findArchitecture(os) ==
    IF os = "darwin" THEN "macos"
    ELSE IF os = "linux" THEN "linux"
    ELSE "windows"

releasesUrl(arch) == BaseUrl \o "/releases_" \o arch \o ".json"

\* releaseData.current_release[channel] (line 86), current_release present
currentHashOf(current_release, channel) ==
    IF channel \in DOMAIN current_release THEN current_release[channel] ELSE None

\* findLatestRelease: the error it throws ("" when it returns) and the record
\* it returns.  It throws on an absent current_release, on an absent releases
\* and on a null item reached before a match; a record matches when its hash
\* === currentHash, and an absent hash is === an absent currentHash.
findLatestRelease(releaseData, channel) ==
    IF ~IsSome(releaseData.current_release)
    THEN [error |-> CurrentReleaseError, release |-> None]
    ELSE IF ~IsSome(releaseData.releases)
    THEN [error |-> ReleasesError, release |-> None]
    ELSE LET currentHash == currentHashOf(Val(releaseData.current_release), channel)
             rs == Val(releaseData.releases)
         IN  ArrayFind(rs,
                       { i \in 1..Len(rs) \ NullItems(rs) : rs[i].hash = currentHash },
                       NullItems(rs))

\* findVersionRelease: the error it throws ("" when it returns) and the record
\* it returns
findVersionRelease(releaseData, channel, version) ==
    IF ~IsSome(releaseData.releases)
    THEN [error |-> ReleasesError, release |-> None]
    ELSE LET rs == Val(releaseData.releases)
         IN  ArrayFind(rs,
                       { i \in 1..Len(rs) \ NullItems(rs) :
                            rs[i].version = version /\ rs[i].channel = channel },
                       NullItems(rs))

\* lines 22-25 of main: which selector the orchestrator runs, and its result
selectRelease(releaseData, channel, version) ==
    LET result == IF version = "latest"
                  THEN findLatestRelease(releaseData, channel)
                  ELSE findVersionRelease(releaseData, channel, version)
    IN  [selector |-> IF version = "latest" THEN "findLatestRelease"
                      ELSE "findVersionRelease",
         error |-> result.error,
         release |-> result.release]

\* line 33: `${_baseUrl}/${urlRelative}`
downloadUrlOf(baseUrl, urlRelative) ==
    TemplateString(baseUrl) \o "/" \o TemplateString(urlRelative)

\* a lookup that leaves the architecture to the tool library's default
findKey_noArch(releaseInfo, arch) == <<FLUTTER_TOOL_NAME, releaseInfo.version, "x64">>

\* the key main() passes to tool.findLocalTool (lines 29 and 37)
findKey(releaseInfo, arch) == <<FLUTTER_TOOL_NAME, releaseInfo.version, arch>>

\* the key downloadAndCacheSdk passes to tool.cacheDir (line 75)
storeKey(versionSpec, arch) == <<FLUTTER_TOOL_NAME, versionSpec, arch>>

\* tool cache: where the entry of a key lives on disk
toolCachePath(key) ==
    AgentToolsDirectory \o "/" \o key[1] \o "/" \o key[2] \o "/" \o key[3]

findLocalTool(c, key) ==
    IF key \in DOMAIN c THEN Some(c[key].path) ELSE None

cacheDir(c, sourceDir, key) ==
    [k \in DOMAIN c \cup {key} |->
        IF k = key THEN [path |-> toolCachePath(key), content |-> sourceDir]
        ELSE c[k]]

\* uuidv4(): the n-th value handed out on the host, never handed out before
uuidv4(n) == "uuid-" \o ToString(n)

\* an extraction folder with a fixed name
_createExtractFolder_fixed(os, n) == PathJoin(os, AgentTempDirectory, "flutter")

\* _createExtractFolder without a destination (line 118), the temp
\* directory being set
_createExtractFolder(os, n) == PathJoin(os, AgentTempDirectory, uuidv4(n))

\* tool.downloadTool and tool.extractZip name their own temporary paths
toolLibTempPath(n) == AgentTempDirectory \o "/" \o uuidv4(n)

\* a join that turns an undefined toolPath into the text "undefined"
fullFlutterPath_coerced(os, toolPath) ==
    Some(PathJoin(os, TemplateString(toolPath), FLUTTER_EXE_RELATIVEPATH))

\* line 41: path.join throws a TypeError on an undefined toolPath
fullFlutterPath(os, toolPath) ==
    IF IsSome(toolPath) THEN Some(PathJoin(os, Val(toolPath), FLUTTER_EXE_RELATIVEPATH))
    ELSE None

----------------------------------------------------------------------------
(* State *)

NoLocals ==
    [arch |-> "", releaseData |-> None, baseUrl |-> None, releaseInfo |-> None,
     toolPath |-> None, downloadUrl |-> "", versionSpec |-> "", bundleZip |-> "",
     dest |-> "", bundleDir |-> ""]

NoResult == [status |-> "None", message |-> ""]

\* a call on a collaborator: how it ended is "ok" (it returned), "throw", or
\* "lost" (tool.cacheDir returned but its entry is not visible to lookups)
Call(op, args, outcome) == [op |-> op, args |-> args, outcome |-> outcome]

Init ==
    /\ platform \in OsPlatforms
    /\ cache = <<>>
    /\ nextUuid = 0
    /\ pc = [p \in Procs |-> "idle"]
    /\ runs = [p \in Procs |-> 0]
    /\ inputs = [p \in Procs |-> [channel |-> None, version |-> None]]
    /\ local = [p \in Procs |-> NoLocals]
    /\ taskVariables = [p \in Procs |-> {}]
    /\ taskResult = [p \in Procs |-> NoResult]
    /\ calls = [p \in Procs |-> <<>>]
    /\ cacheAtStart = [p \in Procs |-> <<>>]
    /\ overlapped = [p \in Procs |-> FALSE]
    /\ published = {}
    /\ extractFolders = <<>>

Running(p) == pc[p] \notin {"idle", "done"}

Log(p, op, args, outcome) ==
    calls' = [calls EXCEPT ![p] = Append(@, Call(op, args, outcome))]

\* a failure that is reported while main() carries on
Fail_noAbort(p, error) ==
    /\ taskResult' = [taskResult EXCEPT ![p] = [status |-> "Failed", message |-> error]]
    /\ UNCHANGED pc

\* a rejection of main() that nothing handles
Fail_unhandled(p, error) ==
    /\ pc' = [pc EXCEPT ![p] = "done"]
    /\ UNCHANGED taskResult

\* main().catch: the rejection of main() ends the run as Failed
Fail(p, error) ==
    /\ pc' = [pc EXCEPT ![p] = "done"]
    /\ taskResult' = [taskResult EXCEPT ![p] = [status |-> "Failed", message |-> error]]

Goto(p, label) ==
    /\ pc' = [pc EXCEPT ![p] = label]
    /\ UNCHANGED taskResult

----------------------------------------------------------------------------
(* The steps of a run *)

\* the task starts: main() is entered and resolves the platform (line 14)
Start(p, CI, VI, maxRuns) ==
    /\ pc[p] \in {"idle", "done"}
    /\ runs[p] < maxRuns
    /\ runs' = [runs EXCEPT ![p] = @ + 1]
    /\ \E ch \in CI, v \in VI :
            inputs' = [inputs EXCEPT ![p] = [channel |-> ch, version |-> v]]
    /\ local' = [local EXCEPT ![p] = [NoLocals EXCEPT !.arch = findArchitecture(platform)]]
    /\ taskVariables' = [taskVariables EXCEPT ![p] = {}]
    /\ taskResult' = [taskResult EXCEPT ![p] = NoResult]
    /\ calls' = [calls EXCEPT ![p] = <<Call("findArchitecture", <<platform>>, "ok")>>]
    /\ cacheAtStart' = [cacheAtStart EXCEPT ![p] = cache]
    /\ overlapped' = [q \in Procs |->
            IF q = p THEN \E r \in Procs \ {p} : Running(r)
            ELSE overlapped[q] \/ Running(q)]
    /\ pc' = [pc EXCEPT ![p] = "getReleaseData"]
    /\ UNCHANGED <<platform, cache, nextUuid, published, extractFolders>>

\* lines 15-16 and getReleaseData: fetch and parse the manifest, read its
\* base_url
GetReleaseData(p, MS) ==
    /\ pc[p] = "getReleaseData"
    /\ \/ /\ Log(p, "getReleaseData", <<releasesUrl(local[p].arch)>>, "throw")
          /\ Fail(p, "NetworkError")
          /\ UNCHANGED local
       \/ /\ Log(p, "getReleaseData", <<releasesUrl(local[p].arch)>>, "throw")
          /\ Fail(p, "ParseError")
          /\ UNCHANGED local
       \/ \E m \in MS :
            /\ Log(p, "getReleaseData", <<releasesUrl(local[p].arch)>>, "ok")
            /\ IF m = JsonNull
               THEN /\ local' = [local EXCEPT ![p].releaseData = Some(m)]
                    /\ Fail(p, BodyError)
               ELSE /\ local' = [local EXCEPT ![p].releaseData = Some(m),
                                              ![p].baseUrl = m.base_url]
                    /\ Goto(p, "selectRelease")
    /\ UNCHANGED <<platform, cache, nextUuid, runs, inputs, taskVariables,
                   cacheAtStart, overlapped, published, extractFolders>>

\* lines 19-26: read the inputs, select the release, read its archive
SelectRelease(p) ==
    /\ pc[p] = "selectRelease"
    /\ LET ch == inputs[p].channel
           v == inputs[p].version
           getCh == Call("getInput", <<"channel">>, IF IsSome(ch) THEN "ok" ELSE "throw")
           getV == Call("getInput", <<"version">>, IF IsSome(v) THEN "ok" ELSE "throw")
       IN  IF ~IsSome(ch)
           THEN /\ calls' = [calls EXCEPT ![p] = @ \o <<getCh>>]
                /\ Fail(p, "InputError")
                /\ UNCHANGED local
           ELSE IF ~IsSome(v)
           THEN /\ calls' = [calls EXCEPT ![p] = @ \o <<getCh, getV>>]
                /\ Fail(p, "InputError")
                /\ UNCHANGED local
           ELSE LET selected == selectRelease(Val(local[p].releaseData), Val(ch), Val(v))
                    releaseInfo == selected.release
                IN  /\ calls' = [calls EXCEPT ![p] =
                            @ \o <<getCh, getV,
                                   Call(selected.selector, <<Val(ch), Val(v)>>,
                                        IF selected.error # "" THEN "throw" ELSE "ok")>>]
                    /\ local' = [local EXCEPT ![p].releaseInfo = releaseInfo]
                    /\ IF selected.error # "" THEN Fail(p, selected.error)
                       ELSE IF IsSome(releaseInfo) THEN Goto(p, "findLocalTool")
                       ELSE Fail(p, SelectionError)
    /\ UNCHANGED <<platform, cache, nextUuid, runs, inputs, taskVariables,
                   cacheAtStart, overlapped, published, extractFolders>>

\* lines 29-31: the first cache lookup
FindLocalTool(p) ==
    /\ pc[p] = "findLocalTool"
    /\ LET key == findKey(Val(local[p].releaseInfo), local[p].arch)
           toolPath == findLocalTool(cache, key)
       IN  /\ Log(p, "findLocalTool", key, "ok")
           /\ local' = [local EXCEPT ![p].toolPath = toolPath]
           /\ Goto(p, IF IsSome(toolPath) THEN "publish" ELSE "downloadTool")
    /\ UNCHANGED <<platform, cache, nextUuid, runs, inputs, taskVariables,
                   cacheAtStart, overlapped, published, extractFolders>>

\* line 33 and lines 57-59: download the archive
DownloadTool(p) ==
    /\ pc[p] = "downloadTool"
    /\ LET releaseInfo == Val(local[p].releaseInfo)
           downloadUrl == downloadUrlOf(local[p].baseUrl, releaseInfo.archive)
       IN  \/ /\ Log(p, "downloadTool", <<downloadUrl>>, "throw")
              /\ Fail(p, "DownloadError")
              /\ local' = [local EXCEPT ![p].downloadUrl = downloadUrl,
                                        ![p].versionSpec = releaseInfo.version]
              /\ UNCHANGED nextUuid
           \/ /\ Log(p, "downloadTool", <<downloadUrl>>, "ok")
              /\ local' = [local EXCEPT ![p].downloadUrl = downloadUrl,
                                        ![p].versionSpec = releaseInfo.version,
                                        ![p].bundleZip = toolLibTempPath(nextUuid)]
              /\ nextUuid' = nextUuid + 1
              /\ Goto(p, "extract")
    /\ UNCHANGED <<platform, cache, runs, inputs, taskVariables, cacheAtStart,
                   overlapped, published, extractFolders>>

\* lines 63-66: the archive is a zip
ExtractZip(p) ==
    /\ pc[p] = "extract"
    /\ EndsWith(local[p].downloadUrl, ".zip")
    /\ nextUuid' = nextUuid + 1
    /\ \/ /\ Log(p, "extractZip", <<local[p].bundleZip>>, "throw")
          /\ Fail(p, "ExtractError")
          /\ UNCHANGED local
       \/ /\ Log(p, "extractZip", <<local[p].bundleZip>>, "ok")
          /\ local' = [local EXCEPT ![p].bundleDir = toolLibTempPath(nextUuid)]
          /\ Goto(p, "cacheDir")
    /\ UNCHANGED <<platform, cache, runs, inputs, taskVariables, cacheAtStart,
                   overlapped, published, extractFolders>>

\* lines 67-69, 106 and _createExtractFolder: any other archive goes through
\* extractTarXZ, which first names and creates its folder.  A folder that was
\* created is recorded in extractFolders, a creation that threw as the call
\* that threw; an unset Agent.TempDirectory makes path.join throw, after
\* uuidv4() was evaluated and before anything is created.
CreateExtractFolder(p) ==
    /\ pc[p] = "extract"
    /\ ~EndsWith(local[p].downloadUrl, ".zip")
    /\ LET dest == _createExtractFolder(platform, nextUuid)
       IN  \/ /\ Fail(p, TempDirectoryError)
              /\ nextUuid' = nextUuid + 1
              /\ UNCHANGED <<calls, local, extractFolders>>
           \/ /\ Log(p, "mkdirP", <<dest>>, "throw")
              /\ Fail(p, "ExtractError")
              /\ nextUuid' = nextUuid + 1
              /\ UNCHANGED <<local, extractFolders>>
           \/ /\ nextUuid' = nextUuid + 1
              /\ extractFolders' = Append(extractFolders, dest)
              /\ local' = [local EXCEPT ![p].dest = dest]
              /\ Goto(p, "tar")
              /\ UNCHANGED calls
    /\ UNCHANGED <<platform, cache, runs, inputs, taskVariables, cacheAtStart,
                   overlapped, published>>

\* lines 108-112: extractTarXZ runs tar and awaits its exit
ExtractTarXZ(p) ==
    /\ pc[p] = "tar"
    /\ LET args == <<"-xJC", local[p].dest, "-f", local[p].bundleZip>>
       IN  \/ /\ Log(p, "tar", args, "throw")
              /\ Fail(p, "ExtractError")
              /\ UNCHANGED local
           \/ /\ Log(p, "tar", args, "ok")
              /\ local' = [local EXCEPT ![p].bundleDir = local[p].dest]
              /\ Goto(p, "cacheDir")
    /\ UNCHANGED <<platform, cache, nextUuid, runs, inputs, taskVariables, cacheAtStart,
                   overlapped, published, extractFolders>>

\* lines 73-75: register the extracted directory in the tool cache
CacheDir(p) ==
    /\ pc[p] = "cacheDir"
    /\ LET key == storeKey(local[p].versionSpec, local[p].arch)
           args == <<local[p].bundleDir>> \o key
       IN  \/ /\ Log(p, "cacheDir", args, "throw")
              /\ Fail(p, "StoreError")
              /\ UNCHANGED cache
           \/ /\ Log(p, "cacheDir", args, "ok")
              /\ cache' = cacheDir(cache, local[p].bundleDir, key)
              /\ Goto(p, "findAgain")
           \/ /\ Log(p, "cacheDir", args, "lost")
              /\ UNCHANGED cache
              /\ Goto(p, "findAgain")
    /\ UNCHANGED <<platform, nextUuid, runs, inputs, local, taskVariables,
                   cacheAtStart, overlapped, published, extractFolders>>

\* lines 36-37: the second cache lookup
FindAgain(p) ==
    /\ pc[p] = "findAgain"
    /\ LET key == findKey(Val(local[p].releaseInfo), local[p].arch)
       IN  /\ Log(p, "findLocalTool", key, "ok")
           /\ local' = [local EXCEPT ![p].toolPath = findLocalTool(cache, key)]
           /\ Goto(p, "publish")
    /\ UNCHANGED <<platform, cache, nextUuid, runs, inputs, taskVariables,
                   cacheAtStart, overlapped, published, extractFolders>>

\* lines 41-44: publish the tool path and report success
Publish(p) ==
    /\ pc[p] = "publish"
    /\ LET joined == fullFlutterPath(platform, local[p].toolPath)
           key == findKey(Val(local[p].releaseInfo), local[p].arch)
       IN  IF IsSome(joined)
           THEN /\ Log(p, "setVariable", <<FLUTTER_TOOL_PATH_ENV_VAR, Val(joined)>>, "ok")
                /\ taskVariables' = [taskVariables EXCEPT ![p] =
                        @ \cup {<<FLUTTER_TOOL_PATH_ENV_VAR, Val(joined)>>}]
                /\ published' = published \cup {<<key, Val(joined)>>}
                /\ pc' = [pc EXCEPT ![p] = "done"]
                /\ taskResult' = [taskResult EXCEPT ![p] =
                        [status |-> "Succeeded", message |-> "Installed"]]
           ELSE /\ Fail(p, CacheInconsistencyError)
                /\ UNCHANGED <<calls, taskVariables, published>>
    /\ UNCHANGED <<platform, cache, nextUuid, runs, inputs, local, cacheAtStart,
                   overlapped, extractFolders>>

----------------------------------------------------------------------------
(* Specifications *)

Step(p, MS) ==
    \/ GetReleaseData(p, MS)
    \/ SelectRelease(p)
    \/ FindLocalTool(p)
    \/ DownloadTool(p)
    \/ ExtractZip(p)
    \/ CreateExtractFolder(p)
    \/ ExtractTarXZ(p)
    \/ CacheDir(p)
    \/ FindAgain(p)
    \/ Publish(p)

\* one agent on the host: the runs follow each other
Next ==
    \/ Start(1, ChannelInputs, VersionInputs, MaxRuns)
    \/ Step(1, Manifests)

Spec == Init /\ [][Next]_vars

\* a run is never abandoned: every awaited call returns or throws
LiveManifests ==
    { m \in RecordBodies : Len(Val(m.releases)) <= 1 } \cup OtherBodies

NextLive ==
    \/ Start(1, ChannelInputs, VersionInputs, MaxRuns)
    \/ Step(1, LiveManifests)

LiveSpec == Init /\ [][NextLive]_vars /\ WF_vars(Step(1, LiveManifests))

\* two agents on the host, not coordinated
ConcChannels == {Some("stable"), Some("beta")}
ConcVersions == {Some("latest")}

NextConc ==
    \E p \in Procs :
        \/ Start(p, ConcChannels, ConcVersions, MaxConcRuns)
        \/ Step(p, ConcManifests)

ConcSpec == Init /\ [][NextConc]_vars

----------------------------------------------------------------------------
(* Properties *)

CallsOf(p, ops) == { i \in 1..Len(calls[p]) : calls[p][i].op \in ops }

Published(p) == \E pair \in taskVariables[p] : pair[1] = FLUTTER_TOOL_PATH_ENV_VAR

Selectors == {"findLatestRelease", "findVersionRelease"}
CacheAndFetchOps ==
    {"findLocalTool", "downloadTool", "extractZip", "mkdirP", "tar", "cacheDir"}

SelectionAttempted(p) == CallsOf(p, Selectors) # {}

\* res is the first element of rs among those at the indexes in hits, or
\* None when hits is empty
IsFirstMatch(rs, hits, res) ==
    \/ /\ res = None
       /\ hits = {}
    \/ \E i \in hits :
            /\ \A j \in 1..(i - 1) : j \notin hits
            /\ res = Some(rs[i])

\* the items of the manifest's releases, none when it has no such array
Items(m) == IF m # JsonNull /\ IsSome(m.releases) THEN Val(m.releases) ELSE <<>>

\* the manifest names no current release for the channel
NoCurrentRelease(m, channel) ==
    ~IsSome(m.current_release) \/ channel \notin DOMAIN Val(m.current_release)

\* the channel has a current release and the item is a record carrying its hash
HasCurrentHash(m, channel, item) ==
    /\ ~NoCurrentRelease(m, channel)
    /\ item # JsonNull
    /\ item.hash = Val(m.current_release)[channel]

\* "/" for every "\" of a path
Slashes(s) ==
    LET upTo[i \in 0..Len(s)] ==
            IF i = 0 THEN ""
            ELSE upTo[i - 1] \o (IF SubSeq(s, i, i) = "\\" THEN "/" ELSE SubSeq(s, i, i))
    IN  upTo[Len(s)]

\* a and b name the same file on the host: Windows takes either separator
SamePath(a, b) == IF platform = "win32" THEN Slashes(a) = Slashes(b) ELSE a = b

\* the run published FlutterToolPath once, as the given path
PublishedAs(p, path) ==
    /\ Cardinality(taskVariables[p]) = 1
    /\ \A pair \in taskVariables[p] :
            pair[1] = "FlutterToolPath" /\ SamePath(pair[2], path)

HasVersionAndChannel(channel, version, item) ==
    item # JsonNull /\ item.version = version /\ item.channel = channel

\* the indexes of the items that match the request
Matching(m, channel, version) ==
    { i \in 1..Len(Items(m)) :
        IF version = "latest" THEN HasCurrentHash(m, channel, Items(m)[i])
        ELSE HasVersionAndChannel(channel, version, Items(m)[i]) }

\* the manifest holds no record for the request
NoRecordFor(m, channel, version) == Matching(m, channel, version) = {}

\* C1: a run ends Succeeded with FlutterToolPath published, or Failed with
\* FlutterToolPath never published in that run; there is no third outcome.
C1_NoPartialSuccess ==
    \A p \in Procs :
        /\ pc[p] = "done" => taskResult[p].status \in {"Succeeded", "Failed"}
        /\ Running(p) => taskResult[p].status = "None"
        /\ taskResult[p].status = "Succeeded" <=> Published(p)
        /\ taskResult[p].status = "Failed" => CallsOf(p, {"setVariable"}) = {}

\* a run that failed late, after the download succeeded
C1_Witness ==
    /\ pc[1] = "done"
    /\ taskResult[1] = [status |-> "Failed", message |-> "ExtractError"]
    /\ CallsOf(1, {"downloadTool"}) # {}

\* C2: when no record matches the request ("latest" with no record whose hash
\* is the hash current_release names for the channel, or an explicit version
\* with no record of that version and channel), the run fails in the selection
\* step, FlutterToolPath is never set, and the cache is neither looked up nor
\* written and nothing is downloaded or extracted.
C2_NoRecordFails ==
    \A p \in Procs :
        ( /\ SelectionAttempted(p)
          /\ NoRecordFor(Val(local[p].releaseData), Val(inputs[p].channel),
                         Val(inputs[p].version)) )
        => /\ pc[p] = "done"
           /\ taskResult[p].status = "Failed"
           /\ taskResult[p].message \in
                {SelectionError, CurrentReleaseError, ReleasesError, ItemError}
           /\ ~Published(p)
           /\ CallsOf(p, CacheAndFetchOps \cup {"setVariable"}) = {}

\* C7: findLatestRelease returns the first record, in manifest order, whose
\* hash is current_release[channel]; it returns nothing when the channel has
\* no current release or no record has that hash, and does not throw.
C7_SelectLatest ==
    \A p \in Procs :
        CallsOf(p, {"findLatestRelease"}) # {} =>
            LET m == Val(local[p].releaseData)
                channel == Val(inputs[p].channel)
                current == { i \in 1..Len(Items(m)) :
                                HasCurrentHash(m, channel, Items(m)[i]) }
            IN  /\ IsFirstMatch(Items(m), current, local[p].releaseInfo)
                /\ NoCurrentRelease(m, channel) => local[p].releaseInfo = None
                /\ \A i \in CallsOf(p, {"findLatestRelease"}) : calls[p][i].outcome = "ok"

\* C8: findVersionRelease returns the first record matching both the version
\* and the channel, nothing when no record matches both; main() runs it
\* exactly when the requested version is not "latest", and findLatestRelease
\* otherwise.
C8_SelectVersion ==
    \A p \in Procs :
        SelectionAttempted(p) =>
            LET m == Val(local[p].releaseData)
                channel == Val(inputs[p].channel)
                version == Val(inputs[p].version)
                both == { i \in 1..Len(Items(m)) :
                            HasVersionAndChannel(channel, version, Items(m)[i]) }
                ran == { calls[p][i].op : i \in CallsOf(p, Selectors) }
            IN  /\ Cardinality(CallsOf(p, Selectors)) = 1
                /\ IF version # "latest"
                   THEN /\ ran = {"findVersionRelease"}
                        /\ IsFirstMatch(Items(m), both, local[p].releaseInfo)
                        /\ \A i \in CallsOf(p, Selectors) : calls[p][i].outcome = "ok"
                   ELSE ran = {"findLatestRelease"}

Extractors == {"extractZip", "tar"}

\* the key of the run's release, written out
KeyOf(p) == <<"Flutter", Val(local[p].releaseInfo).version, findArchitecture(platform)>>

\* C3: once the cache holds the SDK under ("Flutter", V, A), a later run whose
\* release has version V downloads, extracts and stores nothing, and publishes
\* the path of that entry joined with "flutter/bin", the value published before.
C3_CacheHitNoDownload ==
    /\ \A p \in Procs :
        ( /\ CallsOf(p, {"findLocalTool"}) # {}
          /\ IsSome(local[p].releaseInfo)
          /\ KeyOf(p) \in DOMAIN cacheAtStart[p] )
        => /\ CallsOf(p, {"downloadTool", "cacheDir"} \cup Extractors) = {}
           /\ cache = cacheAtStart[p]
           /\ pc[p] \in {"publish", "done"}
           /\ pc[p] = "done" =>
                /\ taskResult[p].status = "Succeeded"
                /\ PublishedAs(p, cacheAtStart[p][KeyOf(p)].path \o "/" \o "flutter/bin")
    /\ \A a \in published, b \in published : a[1] = b[1] => a[2] = b[2]

\* a second run on Windows that asked for the explicit version and found it
\* cached
C3_Witness ==
    /\ platform = "win32"
    /\ runs[1] = 2
    /\ pc[1] = "done"
    /\ inputs[1].version = Some("1.2.3")
    /\ IsSome(local[1].releaseInfo)
    /\ KeyOf(1) \in DOMAIN cacheAtStart[1]
    /\ taskResult[1].status = "Succeeded"

\* no collaborator failed: every call on one returned what it should, and the
\* agent supplied its temp directory
AllOk(p) ==
    /\ \A i \in 1..Len(calls[p]) :
            calls[p][i].op \notin Selectors => calls[p][i].outcome = "ok"
    /\ taskResult[p].message # TempDirectoryError

\* the record R of the request: the first item of the manifest that matches it
Requested(p) ==
    LET m == Val(local[p].releaseData)
        hits == Matching(m, Val(inputs[p].channel), Val(inputs[p].version))
    IN  Items(m)[CHOOSE i \in hits : \A j \in hits : i <= j]

\* what a run that installs the SDK has done when it ended
InstalledOnMiss(p) ==
    LET R == Requested(p)
        m == Val(local[p].releaseData)
        key == <<"Flutter", R.version, findArchitecture(platform)>>
        c == calls[p]
    IN  /\ taskResult[p].status = "Succeeded"
        /\ local[p].releaseInfo = Some(R)
        /\ Len(c) = 11
        /\ c[5].op \in Selectors
        /\ c[6] = Call("findLocalTool", key, "ok")
        /\ IsSome(m.base_url) /\ IsSome(R.archive)
        /\ c[7] = Call("downloadTool", <<Val(m.base_url) \o "/" \o Val(R.archive)>>, "ok")
        /\ c[8].op \in Extractors
        /\ c[9] = Call("cacheDir", <<local[p].bundleDir>> \o key, "ok")
        /\ c[10] = Call("findLocalTool", key, "ok")
        /\ R.version # "latest"
        /\ key \in DOMAIN cache
        /\ cache[key].content = local[p].bundleDir
        /\ local[p].toolPath = Some(cache[key].path)
        /\ PublishedAs(p, Val(local[p].toolPath) \o "/" \o "flutter/bin")

C4_Installs ==
    \A p \in Procs :
        ( /\ pc[p] = "done"
          /\ AllOk(p)
          /\ IsSome(inputs[p].channel) /\ IsSome(inputs[p].version)
          /\ IsSome(local[p].releaseData)
          /\ ~NoRecordFor(Val(local[p].releaseData), Val(inputs[p].channel),
                          Val(inputs[p].version))
          /\ <<"Flutter", Requested(p).version, findArchitecture(platform)>>
                \notin DOMAIN cacheAtStart[p] )
        => InstalledOnMiss(p)

\* C4: with the inputs present, a record R of the manifest matching the
\* request, no cache entry for ("Flutter", R.version, arch) and no collaborator
\* failing, the run ends, and it ends Succeeded having downloaded
\* base_url/R.archive, stored the extracted directory under the key of both
\* lookups, and published the second lookup's path joined with "flutter/bin".
C4_CacheMissInstall ==
    /\ []C4_Installs
    /\ (Running(1) ~> pc[1] = "done")

\* C5: when tool.cacheDir returned and the lookup that follows still finds
\* nothing, the run ends Failed, FlutterToolPath is not published, and the
\* download, extraction and store are not run a second time.
C5_CacheInconsistencyFatal ==
    \A p \in Procs :
        ( /\ \E i \in CallsOf(p, {"cacheDir"}) : calls[p][i].outcome # "throw"
          /\ Cardinality(CallsOf(p, {"findLocalTool"})) = 2
          /\ local[p].toolPath = None )
        => /\ pc[p] \in {"publish", "done"}
           /\ pc[p] = "done" =>
                taskResult[p] = [status |-> "Failed", message |-> CacheInconsistencyError]
           /\ ~Published(p)
           /\ Cardinality(CallsOf(p, {"downloadTool"})) = 1
           /\ Cardinality(CallsOf(p, Extractors)) = 1
           /\ Cardinality(CallsOf(p, {"cacheDir"})) = 1

\* the store returned, the second lookup missed, the run has ended
C5_Witness ==
    /\ pc[1] = "done"
    /\ \E i \in CallsOf(1, {"cacheDir"}) : calls[1][i].outcome = "lost"
    /\ local[1].toolPath = None
    /\ taskResult[1].status = "Failed"

\* the step of the install flow a call belongs to
StepOf(op) ==
    CASE op \in Selectors -> "select"
      [] op \in Extractors \cup {"mkdirP"} -> "extract"
      [] OTHER -> op

MissOrder ==
    <<"findArchitecture", "getReleaseData", "getInput", "getInput", "select",
      "findLocalTool", "downloadTool", "extract", "cacheDir", "findLocalTool",
      "setVariable">>

HitOrder ==
    <<"findArchitecture", "getReleaseData", "getInput", "getInput", "select",
      "findLocalTool", "setVariable">>

IsPrefix(s, t) == Len(s) <= Len(t) /\ \A i \in 1..Len(s) : s[i] = t[i]

\* C9: the steps of a run happen in the fixed order, each at most once; a
\* step that fails is the last step of the run, which then is Failed; a
\* store follows a successful download and a successful extraction.
C9_FailureAborts ==
    \A p \in Procs :
        LET steps == [i \in 1..Len(calls[p]) |-> StepOf(calls[p][i].op)]
        IN  /\ IsPrefix(steps, MissOrder) \/ IsPrefix(steps, HitOrder)
            /\ \A i \in 1..Len(calls[p]) :
                calls[p][i].outcome = "throw" =>
                    /\ i = Len(calls[p])
                    /\ pc[p] = "done"
                    /\ taskResult[p].status = "Failed"
            /\ taskResult[p].status = "Failed" => pc[p] = "done"
            /\ \A i \in CallsOf(p, {"cacheDir"}) :
                \E j \in 1..(i - 1), k \in 1..(i - 1) :
                    /\ j < k
                    /\ calls[p][j].op = "downloadTool" /\ calls[p][j].outcome = "ok"
                    /\ calls[p][k].op \in Extractors /\ calls[p][k].outcome = "ok"
            /\ pc[p] # "idle" /\ ~overlapped[p] /\ cache # cacheAtStart[p] =>
                \E i \in CallsOf(p, {"cacheDir"}) : calls[p][i].outcome = "ok"

\* the store failed: no second lookup, nothing published
C9_Witness ==
    /\ pc[1] = "done"
    /\ taskResult[1] = [status |-> "Failed", message |-> "StoreError"]
    /\ Len(calls[1]) = 9

\* url ends in ".zip", said without EndsWith
IsZipUrl(url) == \E n \in 0..Len(url) : SubSeq(url, 1, n) \o ".zip" = url

\* dir is one level below the agent's temp directory
UnderTempRoot(dir) ==
    \E n \in 2..Len(dir) :
        /\ SamePath(SubSeq(dir, 1, Len(dir) - n), AgentTempDirectory)
        /\ SamePath(SubSeq(dir, Len(dir) - n + 1, Len(dir) - n + 1), "/")

\* C10: a run that reaches the extraction runs exactly one extractor, the zip
\* decoder when the download URL ends in ".zip" and tar otherwise; tar
\* extracts into a folder under the agent's temp directory created for this
\* extraction, and no two extractions get the same folder.
C10_ArchiveDispatch ==
    /\ \A p \in Procs :
        /\ Cardinality(CallsOf(p, Extractors)) <= 1
        /\ pc[p] \in {"cacheDir", "findAgain"} => Cardinality(CallsOf(p, Extractors)) = 1
        /\ \A i \in CallsOf(p, Extractors) :
            LET url == calls[p][i - 1].args[1]
            IN  /\ calls[p][i - 1].op = "downloadTool"
                /\ calls[p][i].op = "extractZip" <=> IsZipUrl(url)
                /\ calls[p][i].op = "tar" =>
                    LET dest == calls[p][i].args[2]
                    IN  /\ calls[p][i].args = <<"-xJC", dest, "-f", local[p].bundleZip>>
                        /\ UnderTempRoot(dest)
                        /\ dest = extractFolders[Len(extractFolders)]
                        /\ dest \notin { cache[k].content : k \in DOMAIN cacheAtStart[p] }
    /\ \A i \in 1..Len(extractFolders), j \in 1..Len(extractFolders) :
        extractFolders[i] = extractFolders[j] => i = j

\* the second tar extraction on a Windows host
C10_Witness ==
    /\ platform = "win32"
    /\ Len(extractFolders) = 2
    /\ pc[1] = "cacheDir"
    /\ calls[1][Len(calls[1])].op = "tar"

\* the step in which process p runs tool.cacheDir
Stores(p) == pc[p] = "cacheDir" /\ pc'[p] # "cacheDir"

StoresIntoEmpty(p) ==
    /\ storeKey(local[p].versionSpec, local[p].arch) \notin DOMAIN cache
    /\ \A k \in DOMAIN cache : k \in DOMAIN cache' /\ cache'[k] = cache[k]

\* C6 as stated: in every execution, two concurrent runs included, a store
\* runs only while the cache has no entry for its key, so no entry is ever
\* overwritten.
C6_NeverOverwrites ==
    [][\A p \in Procs : Stores(p) => StoresIntoEmpty(p)]_vars

\* C6 amended: a run that no other run overlapped stores only while the cache
\* has no entry for its key and leaves every existing entry as it was; in
\* every execution an entry lives at the one path of its key.
C6_SequentialNeverOverwrites ==
    /\ [][\A p \in Procs : Stores(p) /\ ~overlapped[p] => StoresIntoEmpty(p)]_vars
    /\ [](\A k \in DOMAIN cache : cache[k].path = toolCachePath(k))

\* a run that followed another agent's run, found that run's entry in the
\* cache and stored one of its own beside it
C6_Witness ==
    \E p \in Procs :
        /\ pc[p] = "findAgain"
        /\ ~overlapped[p]
        /\ cacheAtStart[p] # <<>>
        /\ DOMAIN cache # DOMAIN cacheAtStart[p]

====
